---- MODULE Spec2Model ----
(***************************************************************************)
(* Model of pkg/mod/tasktree.go: the task graph of one dag instance.       *)
(*                                                                         *)
(* A *TaskNode is a reference into `heap`: reference 0 is the virtual root *)
(* and reference i is the node NewTaskNodeFromGetter made for tasks[i].    *)
(* children and parents are sequences of references, in append order.      *)
(***************************************************************************)
EXTENDS Integers, Sequences, FiniteSets, TLC

----------------------------------------------------------------------------
(* Program constants *)

virtualTaskRootID == "_virtual_root"
TaskEndID == "End"

TaskInstanceStatusInit == "init"
TaskInstanceStatusCanceled == "canceled"
TaskInstanceStatusRunning == "running"
TaskInstanceStatusEnding == "ending"
TaskInstanceStatusFailed == "failed"
TaskInstanceStatusRetrying == "retrying"
TaskInstanceStatusSuccess == "success"
TaskInstanceStatusBlocked == "blocked"
TaskInstanceStatusContinue == "continue"
TaskInstanceStatusSkipped == "skipped"

TreeStatusRunning == "running"
TreeStatusSuccess == "success"
TreeStatusFailed == "failed"
TreeStatusBlocked == "blocked"

\* The three errors of BuildRootNode (their format strings) and the nil error.
NoError == "nil"
ErrRepeat == "task id is repeat, id: %s"
ErrMissing == "does not find task[%s] depend: %s"
ErrNoStart == "here is no start nodes"

----------------------------------------------------------------------------
(* Bounds *)

\* descriptors in one input of the event specification
MaxTasks == 2
\* dependency identifiers of one descriptor of a dynamic specification
MaxDepend == 2
\* descriptors in one input of the snapshot specification
MaxSnapshotTasks == 2
\* descriptors in one input of the construction specification
MaxBuildTasks == 3
\* dependency identifiers of one descriptor of the construction specification
MaxBuildDepend == 2
\* records ListTaskInstance returns for the End task
MaxEndTasks == 2
\* descriptors in one input of the cyclic specification
MaxCyclicTasks == 3
\* completion events of one run that arrive a second time
MaxDuplicates == 1

----------------------------------------------------------------------------
(* Inputs *)

GraphIDName == <<"A", "B", "C", "D", "E", "F">>
InsIDName == <<"a1", "b1", "c1", "d1", "e1", "f1">>
\* a dependency identifier that no descriptor carries
UnknownGraphID == "Z"
\* a task instance identity that no node carries
UnknownInsID == "z1"

SeqsUpTo(S, n) == UNION {[1..k -> S] : k \in 0..n}

\* strictly increasing sequences over a set of integers, as dependency lists
RECURSIVE SortedSeq(_)
SortedSeq(S) ==
    IF S = {} THEN <<>>
    ELSE LET x == CHOOSE y \in S : \A z \in S : y <= z
         IN <<x>> \o SortedSeq(S \ {x})

----------------------------------------------------------------------------
(* Graph construction *)

RootRef == 0
NilRef == -1
NoHeap == <<>>

NewTaskNodeFromGetter(instance) ==
    [TaskInsID |-> instance.ID, Status |-> instance.Status,
     children |-> <<>>, parents |-> <<>>]

\* AppendChild that keeps children a set
AppendChild_Dedup(h, t, task) ==
    IF task \in {h[t].children[k] : k \in DOMAIN h[t].children} THEN h
    ELSE [h EXCEPT ![t].children = Append(@, task)]

AppendChild(h, t, task) == [h EXCEPT ![t].children = Append(@, task)]

AppendParent(h, t, task) == [h EXCEPT ![t].parents = Append(@, task)]

\* the loop of buildGraphNodeMap from descriptor i on; m maps a graph
\* identity to the reference of its node
RECURSIVE buildGraphNodeMapFrom(_, _, _)
buildGraphNodeMapFrom(ts, i, m) ==
    IF i > Len(ts) THEN [err |-> NoError, m |-> m]
    ELSE IF ts[i].GraphID \in DOMAIN m THEN [err |-> ErrRepeat, m |-> <<>>]
    ELSE buildGraphNodeMapFrom(ts, i + 1, (ts[i].GraphID :> i) @@ m)

\* buildGraphNodeMap without the repeat check: a later descriptor replaces
\* an earlier one with the same graph identity
buildGraphNodeMap_NoRepeatCheck(ts) ==
    [err |-> NoError,
     m |-> [g \in {ts[i].GraphID : i \in DOMAIN ts} |->
              CHOOSE i \in DOMAIN ts :
                 /\ ts[i].GraphID = g
                 /\ \A j \in DOMAIN ts : ts[j].GraphID = g => j <= i]]

buildGraphNodeMap(ts) == buildGraphNodeMapFrom(ts, 1, <<>>)

\* linkDepends that skips a dependency it does not find
RECURSIVE linkDepends_SkipMissing(_, _, _, _, _)
linkDepends_SkipMissing(ts, m, i, j, h) ==
    IF j > Len(ts[i].Depend) THEN [err |-> NoError, heap |-> h]
    ELSE LET dependId == ts[i].Depend[j]
         IN IF dependId \notin DOMAIN m
            THEN linkDepends_SkipMissing(ts, m, i, j + 1, h)
            ELSE LET parent == m[dependId]
                     n == m[ts[i].GraphID]
                 IN linkDepends_SkipMissing(ts, m, i, j + 1,
                        [h EXCEPT ![parent].children = Append(@, n),
                                  ![n].parents = Append(@, parent)])

\* the inner loop of BuildRootNode over the dependencies of descriptor i
RECURSIVE linkDepends(_, _, _, _, _)
linkDepends(ts, m, i, j, h) ==
    IF j > Len(ts[i].Depend) THEN [err |-> NoError, heap |-> h]
    ELSE LET dependId == ts[i].Depend[j]
         IN IF dependId \notin DOMAIN m
            THEN [err |-> ErrMissing, heap |-> h]
            ELSE LET parent == m[dependId]
                     n == m[ts[i].GraphID]
                 IN linkDepends(ts, m, i, j + 1,
                        AppendParent(AppendChild(h, parent, n), n, parent))

\* the outer loop of BuildRootNode from descriptor i on
RECURSIVE linkTasks(_, _, _, _)
linkTasks(ts, m, i, h) ==
    IF i > Len(ts) THEN [err |-> NoError, heap |-> h]
    ELSE IF Len(ts[i].Depend) = 0
         THEN LET n == m[ts[i].GraphID]
              IN linkTasks(ts, m, i + 1,
                     AppendChild(AppendParent(h, n, RootRef), RootRef, n))
         ELSE LET r == linkDepends(ts, m, i, 1, h)
              IN IF r.err # NoError THEN r
                 ELSE linkTasks(ts, m, i + 1, r.heap)

BuildRootNodeResult(ts) ==
    LET mr == buildGraphNodeMap(ts)
        h0 == [p \in 0..Len(ts) |->
                 IF p = RootRef
                 THEN [TaskInsID |-> virtualTaskRootID,
                       Status |-> TaskInstanceStatusSuccess,
                       children |-> <<>>, parents |-> <<>>]
                 ELSE NewTaskNodeFromGetter(ts[p])]
    IN IF mr.err # NoError
       THEN [root |-> NilRef, err |-> mr.err, heap |-> NoHeap]
       ELSE LET r == linkTasks(ts, mr.m, 1, h0)
            IN IF r.err # NoError
               THEN [root |-> NilRef, err |-> r.err, heap |-> NoHeap]
               ELSE IF Len(r.heap[RootRef].children) = 0
                    THEN [root |-> NilRef, err |-> ErrNoStart, heap |-> NoHeap]
                    ELSE [root |-> RootRef, err |-> NoError, heap |-> r.heap]

----------------------------------------------------------------------------
(* Node predicates *)

Range(q) == {q[i] : i \in DOMAIN q}

\* CanExecuteChild that lets the children of a failed task proceed
CanExecuteChild_AlsoFailed(h, t) ==
    \/ h[t].Status = TaskInstanceStatusSuccess
    \/ h[t].Status = TaskInstanceStatusSkipped
    \/ h[t].Status = TaskInstanceStatusFailed

CanExecuteChild(h, t) ==
    \/ h[t].Status = TaskInstanceStatusSuccess
    \/ h[t].Status = TaskInstanceStatusSkipped

CanBeExecuted(h, t) ==
    IF Len(h[t].parents) = 0 THEN TRUE
    ELSE \A i \in 1..Len(h[t].parents) : CanExecuteChild(h, h[t].parents[i])

ExecutableStatus(s) ==
    \/ s = TaskInstanceStatusInit
    \/ s = TaskInstanceStatusRetrying
    \/ s = TaskInstanceStatusContinue
    \/ s = TaskInstanceStatusEnding

\* Executable that looks at the node's own status only
Executable_StatusOnly(h, t) == ExecutableStatus(h[t].Status)

Executable(h, t) ==
    IF ExecutableStatus(h[t].Status)
    THEN IF Len(h[t].parents) = 0 THEN TRUE
         ELSE \A i \in 1..Len(h[t].parents) : CanExecuteChild(h, h[t].parents[i])
    ELSE FALSE

----------------------------------------------------------------------------
(* The walk.  A walk state st holds the heap and the variables the three   *)
(* callbacks capture: status and srcTaskInsId (ComputeStatus), executables *)
(* (GetExecutableTaskIds, GetNextTaskIds) and find (GetNextTaskIds).       *)

WalkState(h) ==
    [heap |-> h, status |-> "", srcTaskInsId |-> "", executables |-> <<>>,
     find |-> FALSE]

\* the callback of ComputeStatus
ComputeStatusFunc(st, node) ==
    LET s == st.heap[node].Status
        id == st.heap[node].TaskInsID
    IN IF s = TaskInstanceStatusFailed \/ s = TaskInstanceStatusCanceled
       THEN [st |-> [st EXCEPT !.status = TreeStatusFailed, !.srcTaskInsId = id],
             ret |-> TRUE]
       ELSE IF s = TaskInstanceStatusBlocked
       THEN [st |-> [st EXCEPT !.status = TreeStatusBlocked, !.srcTaskInsId = id],
             ret |-> TRUE]
       ELSE IF s = TaskInstanceStatusSuccess \/ s = TaskInstanceStatusSkipped
       THEN [st |-> st, ret |-> TRUE]
       ELSE [st |-> [st EXCEPT !.status = TreeStatusRunning, !.srcTaskInsId = id],
             ret |-> FALSE]

\* the callback of GetExecutableTaskIds
GetExecutableTaskIdsFunc(st, node) ==
    IF Executable(st.heap, node)
    THEN [st |-> [st EXCEPT !.executables = Append(@, st.heap[node].TaskInsID)],
          ret |-> TRUE]
    ELSE [st |-> st, ret |-> TRUE]

\* the loop over node.children without the Executable check
RECURSIVE appendExecutableChildren_NoCheck(_, _, _, _)
appendExecutableChildren_NoCheck(h, node, i, executable) ==
    IF i > Len(h[node].children) THEN executable
    ELSE appendExecutableChildren_NoCheck(h, node, i + 1,
             Append(executable, h[h[node].children[i]].TaskInsID))

\* the loop over node.children that stops at the first executable child
RECURSIVE appendExecutableChildren_FirstOnly(_, _, _, _)
appendExecutableChildren_FirstOnly(h, node, i, executable) ==
    IF i > Len(h[node].children) THEN executable
    ELSE LET c == h[node].children[i]
         IN IF Executable(h, c) THEN Append(executable, h[c].TaskInsID)
            ELSE appendExecutableChildren_FirstOnly(h, node, i + 1, executable)

\* the loop of GetNextTaskIds' callback over node.children, from child i on
RECURSIVE appendExecutableChildren(_, _, _, _)
appendExecutableChildren(h, node, i, executable) ==
    IF i > Len(h[node].children) THEN executable
    ELSE LET c == h[node].children[i]
         IN appendExecutableChildren(h, node, i + 1,
                IF Executable(h, c) THEN Append(executable, h[c].TaskInsID)
                ELSE executable)

\* the callback of GetNextTaskIds without the write of line 321
GetNextTaskIdsFunc_NoWrite(completedOrRetryTask, st, node) ==
    IF completedOrRetryTask.ID = st.heap[node].TaskInsID
    THEN LET h == st.heap
             found == [st EXCEPT !.find = TRUE]
         IN IF completedOrRetryTask.Status = TaskInstanceStatusInit
            THEN [st |-> [found EXCEPT !.executables = Append(@, h[node].TaskInsID)],
                  ret |-> FALSE]
            ELSE IF ~(completedOrRetryTask.Status \in
                        {TaskInstanceStatusSuccess, TaskInstanceStatusSkipped})
            THEN [st |-> found, ret |-> FALSE]
            ELSE [st |-> [found EXCEPT !.executables =
                             appendExecutableChildren(h, node, 1, @)],
                  ret |-> FALSE]
    ELSE [st |-> st, ret |-> TRUE]

\* the callback of GetNextTaskIds without the Init case of lines 323-326
GetNextTaskIdsFunc_NoInitCase(completedOrRetryTask, st, node) ==
    IF completedOrRetryTask.ID = st.heap[node].TaskInsID
    THEN LET h == [st.heap EXCEPT ![node].Status = completedOrRetryTask.Status]
             found == [st EXCEPT !.find = TRUE, !.heap = h]
         IN IF ~CanExecuteChild(h, node)
            THEN [st |-> found, ret |-> FALSE]
            ELSE [st |-> [found EXCEPT !.executables =
                             appendExecutableChildren(h, node, 1, @)],
                  ret |-> FALSE]
    ELSE [st |-> st, ret |-> TRUE]

\* the callback of GetNextTaskIds
GetNextTaskIdsFunc(completedOrRetryTask, st, node) ==
    IF completedOrRetryTask.ID = st.heap[node].TaskInsID
    THEN LET h == [st.heap EXCEPT ![node].Status = completedOrRetryTask.Status]
             found == [st EXCEPT !.find = TRUE, !.heap = h]
         IN IF h[node].Status = TaskInstanceStatusInit
            THEN [st |-> [found EXCEPT !.executables = Append(@, h[node].TaskInsID)],
                  ret |-> FALSE]
            ELSE IF ~CanExecuteChild(h, node)
            THEN [st |-> found, ret |-> FALSE]
            ELSE [st |-> [found EXCEPT !.executables =
                             appendExecutableChildren(h, node, 1, @)],
                  ret |-> FALSE]
    ELSE [st |-> st, ret |-> TRUE]

\* walkFunc(node), for the callback named by walkFunc; arg is the record
\* GetNextTaskIds' callback captures
CallWalkFunc(walkFunc, arg, st, node) ==
    CASE walkFunc = "ComputeStatus" -> ComputeStatusFunc(st, node)
      [] walkFunc = "GetExecutableTaskIds" -> GetExecutableTaskIdsFunc(st, node)
      [] walkFunc = "GetNextTaskIds" -> GetNextTaskIdsFunc(arg, st, node)

\* dfsWalk returns [ret, st, overflow].  stack is the sequence of nodes whose
\* dfsWalk calls are active: a call on a node that is already on the stack
\* repeats the decisions that led to it (no callback changes a status and
\* lets the walk go on), so the recursion never returns and the goroutine
\* stack overflows.
RECURSIVE dfsWalk(_, _, _, _, _, _)
RECURSIVE dfsWalkChildren(_, _, _, _, _, _, _)
\* dfsWalk that calls walkFunc on the virtual root too
dfsWalk_VisitRoot(root, walkFunc, arg, walkChildrenIgnoreStatus, st, stack) ==
    IF root \in Range(stack)
    THEN [ret |-> FALSE, st |-> st, overflow |-> TRUE]
    ELSE LET r == CallWalkFunc(walkFunc, arg, st, root)
         IN IF ~r.ret
            THEN [ret |-> FALSE, st |-> r.st, overflow |-> FALSE]
            ELSE IF ~walkChildrenIgnoreStatus /\ ~CanExecuteChild(r.st.heap, root)
            THEN [ret |-> TRUE, st |-> r.st, overflow |-> FALSE]
            ELSE dfsWalkChildren(root, 1, walkFunc, arg,
                                 walkChildrenIgnoreStatus, r.st,
                                 Append(stack, root))

dfsWalk(root, walkFunc, arg, walkChildrenIgnoreStatus, st, stack) ==
    IF root \in Range(stack)
    THEN [ret |-> FALSE, st |-> st, overflow |-> TRUE]
    ELSE LET r == IF st.heap[root].TaskInsID # virtualTaskRootID
                  THEN CallWalkFunc(walkFunc, arg, st, root)
                  ELSE [st |-> st, ret |-> TRUE]
         IN IF ~r.ret
            THEN [ret |-> FALSE, st |-> r.st, overflow |-> FALSE]
            ELSE IF ~walkChildrenIgnoreStatus /\ ~CanExecuteChild(r.st.heap, root)
            THEN [ret |-> TRUE, st |-> r.st, overflow |-> FALSE]
            ELSE dfsWalkChildren(root, 1, walkFunc, arg,
                                 walkChildrenIgnoreStatus, r.st,
                                 Append(stack, root))

\* the loop over root.children that returns after the first child it walks
dfsWalkChildren_FirstOnly(root, i, walkFunc, arg, walkChildrenIgnoreStatus, st, stack) ==
    IF i > Len(st.heap[root].children)
    THEN [ret |-> TRUE, st |-> st, overflow |-> FALSE]
    ELSE LET c == st.heap[root].children[i]
         IN IF Len(st.heap[c].parents) > 1 /\ ~CanBeExecuted(st.heap, c)
            THEN dfsWalkChildren(root, i + 1, walkFunc, arg,
                                 walkChildrenIgnoreStatus, st, stack)
            ELSE dfsWalk(c, walkFunc, arg, walkChildrenIgnoreStatus, st, stack)

\* the loop of dfsWalk over root.children, from child i on
dfsWalkChildren(root, i, walkFunc, arg, walkChildrenIgnoreStatus, st, stack) ==
    IF i > Len(st.heap[root].children)
    THEN [ret |-> TRUE, st |-> st, overflow |-> FALSE]
    ELSE LET c == st.heap[root].children[i]
         IN IF Len(st.heap[c].parents) > 1 /\ ~CanBeExecuted(st.heap, c)
            THEN dfsWalkChildren(root, i + 1, walkFunc, arg,
                                 walkChildrenIgnoreStatus, st, stack)
            ELSE LET r == dfsWalk(c, walkFunc, arg,
                                  walkChildrenIgnoreStatus, st, stack)
                 IN IF r.overflow \/ ~r.ret THEN r
                    ELSE dfsWalkChildren(root, i + 1, walkFunc, arg,
                                         walkChildrenIgnoreStatus, r.st, stack)

walkNode(root, walkFunc, arg, walkChildrenIgnoreStatus, h) ==
    dfsWalk(root, walkFunc, arg, walkChildrenIgnoreStatus, WalkState(h), <<>>)

----------------------------------------------------------------------------
(* The operations on a built root *)

\* [executables, heap, overflow]
GetExecutableTaskIds(h, t) ==
    LET w == walkNode(t, "GetExecutableTaskIds", <<>>, FALSE, h)
    IN [executables |-> w.st.executables, heap |-> w.st.heap,
        overflow |-> w.overflow]

\* [executable, find, heap, overflow]
GetNextTaskIds(h, t, completedOrRetryTask) ==
    LET w == walkNode(t, "GetNextTaskIds", completedOrRetryTask, FALSE, h)
    IN [executable |-> w.st.executables, find |-> w.st.find,
        heap |-> w.st.heap, overflow |-> w.overflow]

\* the full walk of ComputeStatus: [status, srcTaskInsId, heap, overflow]
ComputeStatusWalk(h, t) ==
    LET w == walkNode(t, "ComputeStatus", <<>>, FALSE, h)
    IN IF w.st.srcTaskInsId # ""
       THEN [status |-> w.st.status, srcTaskInsId |-> w.st.srcTaskInsId,
             heap |-> w.st.heap, overflow |-> w.overflow]
       ELSE [status |-> TreeStatusSuccess, srcTaskInsId |-> "",
             heap |-> w.st.heap, overflow |-> w.overflow]

\* ComputeStatus that takes the first End record without counting them
ComputeStatus_FirstEndTask(h, t, store) ==
    IF /\ ~store.getErr
       /\ ~store.listErr
       /\ Len(store.endTask) >= 1
       /\ store.endTask[1] = TaskInstanceStatusSuccess
    THEN [status |-> TreeStatusSuccess, srcTaskInsId |-> "",
          heap |-> h, overflow |-> FALSE, walked |-> FALSE]
    ELSE LET w == ComputeStatusWalk(h, t)
         IN [status |-> w.status, srcTaskInsId |-> w.srcTaskInsId,
             heap |-> w.heap, overflow |-> w.overflow, walked |-> TRUE]

\* What the store answers to the two lookups of ComputeStatus: getErr and
\* listErr say whether GetTaskIns and ListTaskInstance fail, endTask is the
\* list of statuses of the records ListTaskInstance returns for TaskEndID.
ComputeStatus(h, t, store) ==
    IF /\ ~store.getErr
       /\ ~store.listErr
       /\ Len(store.endTask) = 1
       /\ store.endTask[1] = TaskInstanceStatusSuccess
    THEN [status |-> TreeStatusSuccess, srcTaskInsId |-> "",
          heap |-> h, overflow |-> FALSE, walked |-> FALSE]
    ELSE LET w == ComputeStatusWalk(h, t)
         IN [status |-> w.status, srcTaskInsId |-> w.srcTaskInsId,
             heap |-> w.heap, overflow |-> w.overflow, walked |-> TRUE]

----------------------------------------------------------------------------
(* HasCycle.  visited is a set of identities, incomplete maps an identity  *)
(* to the reference of the parked node that carries it.                    *)

isParentCompleted(h, node, vis) ==
    \A k \in DOMAIN h[node].parents : h[h[node].parents[k]].TaskInsID \in vis

\* the loop that leaves a node it visits in incomplete
RECURSIVE bfsCheckCycleLoop_NoDelete(_, _, _, _, _, _)
bfsCheckCycleLoop_NoDelete(h, q, i, queueLen, vis, inc) ==
    IF i > queueLen
    THEN [waitQueue |-> SubSeq(q, queueLen + 1, Len(q)),
          visited |-> vis, incomplete |-> inc]
    ELSE LET cur == q[i]
             id == h[cur].TaskInsID
         IN IF ~isParentCompleted(h, cur, vis)
            THEN bfsCheckCycleLoop_NoDelete(h, q, i + 1, queueLen, vis,
                                            (id :> cur) @@ inc)
            ELSE bfsCheckCycleLoop_NoDelete(h, q \o h[cur].children, i + 1,
                                            queueLen, vis \cup {id}, inc)

\* the loop that puts a parked node back on the queue for the next wave
RECURSIVE bfsCheckCycleLoop_Requeue(_, _, _, _, _, _)
bfsCheckCycleLoop_Requeue(h, q, i, queueLen, vis, inc) ==
    IF i > queueLen
    THEN [waitQueue |-> SubSeq(q, queueLen + 1, Len(q)),
          visited |-> vis, incomplete |-> inc]
    ELSE LET cur == q[i]
             id == h[cur].TaskInsID
         IN IF ~isParentCompleted(h, cur, vis)
            THEN bfsCheckCycleLoop_Requeue(h, Append(q, cur), i + 1, queueLen,
                                           vis, (id :> cur) @@ inc)
            ELSE bfsCheckCycleLoop_Requeue(h, q \o h[cur].children, i + 1,
                                           queueLen, vis \cup {id},
                                           [k \in DOMAIN inc \ {id} |-> inc[k]])

\* the loop of one bfsCheckCycle call over the first queueLen entries of
\* the queue q, from entry i on, and the queue handed to the next call
RECURSIVE bfsCheckCycleLoop(_, _, _, _, _, _)
bfsCheckCycleLoop(h, q, i, queueLen, vis, inc) ==
    IF i > queueLen
    THEN [waitQueue |-> SubSeq(q, queueLen + 1, Len(q)),
          visited |-> vis, incomplete |-> inc]
    ELSE LET cur == q[i]
             id == h[cur].TaskInsID
         IN IF ~isParentCompleted(h, cur, vis)
            THEN bfsCheckCycleLoop(h, q, i + 1, queueLen, vis,
                                   (id :> cur) @@ inc)
            ELSE bfsCheckCycleLoop(h, q \o h[cur].children, i + 1, queueLen,
                                   vis \cup {id},
                                   [k \in DOMAIN inc \ {id} |-> inc[k]])

----------------------------------------------------------------------------------------------------------------------------------------
(* State *)

VARIABLES
    tasks,   \* the descriptors BuildRootNode was called with
    pc,      \* "new", then "built" | "error"; "bfsCheckCycle" inside HasCycle;
             \* "overflow" if a walk never returns
    root,    \* the *TaskNode BuildRootNode returned, NilRef for nil
    err,     \* the error BuildRootNode returned
    heap,    \* the nodes: reference -> [TaskInsID, Status, children, parents]
    out,     \* the last call and what it returned
    waitQueue,   \* HasCycle: the queue of the current wave, as references
    visited,     \* HasCycle: the set of identities marked visited
    incomplete,  \* HasCycle: identity -> reference of the parked nodes
    handed,      \* the driver: the identities it was handed, in order
    reported     \* the driver: the identities it reported, in order

vars == <<tasks, pc, root, err, heap, out, waitQueue, visited, incomplete,
          handed, reported>>

\* the locals of HasCycle and the driver's history
hasCycleVars == <<waitQueue, visited, incomplete>>

driverVars == <<handed, reported>>

TaskInstanceStatus ==
    {TaskInstanceStatusInit, TaskInstanceStatusCanceled,
     TaskInstanceStatusRunning, TaskInstanceStatusEnding,
     TaskInstanceStatusFailed, TaskInstanceStatusRetrying,
     TaskInstanceStatusSuccess, TaskInstanceStatusBlocked,
     TaskInstanceStatusContinue, TaskInstanceStatusSkipped}

\* Descriptor i of an input: a task instance with its own identity, the
\* graph identity g of its task, the dependency list d and the status s.
Descriptor(i, g, d, s) ==
    [ID |-> InsIDName[i], GraphID |-> g, Depend |-> d, Status |-> s]

\* Dependency lists of descriptor i of an acyclic input: at most MaxDepend
\* earlier descriptors.
DagDepends(i) ==
    {SortedSeq(S) : S \in {T \in SUBSET (1..(i - 1)) : Cardinality(T) <= MaxDepend}}

\* The acyclic graphs of n descriptors with distinct graph identities, as
\* functions from a descriptor to its dependency list.
DagShapes(n) ==
    {e \in [1..n -> UNION {DagDepends(i) : i \in 1..n}] :
        \A i \in 1..n : e[i] \in DagDepends(i)}

DagInput(n, e, st) ==
    [i \in 1..n |-> Descriptor(i, GraphIDName[i],
                               [j \in DOMAIN e[i] |-> GraphIDName[e[i][j]]],
                               st[i])]

\* The diamond A->B, A->C, B->D, C->D.
DiamondShape == <<<<>>, <<1>>, <<1>>, <<2, 3>>>>

\* Inputs of the event specification: the acyclic inputs of up to MaxTasks
\* descriptors and the diamond, every task in status Init.
EventInputs ==
    UNION {{DagInput(n, e, [i \in 1..n |-> TaskInstanceStatusInit]) :
              e \in DagShapes(n)} : n \in 1..MaxTasks}
    \cup {DagInput(Len(DiamondShape), DiamondShape,
                   [i \in 1..Len(DiamondShape) |-> TaskInstanceStatusInit])}

\* Statuses of the records of the event specification: one or two of each
\* kind the walk tells apart (Init, other executable, may proceed, other).
EventStatuses ==
    {TaskInstanceStatusInit, TaskInstanceStatusEnding,
     TaskInstanceStatusSuccess, TaskInstanceStatusSkipped,
     TaskInstanceStatusFailed}

\* Statuses of the task instances of the snapshot specification.
SnapshotStatuses ==
    {TaskInstanceStatusSuccess, TaskInstanceStatusSkipped,
     TaskInstanceStatusFailed, TaskInstanceStatusCanceled,
     TaskInstanceStatusBlocked, TaskInstanceStatusRunning}

\* Graph identities of the construction specification, named in order of
\* first appearance; a dependency list may name any of them or an
\* identifier no descriptor carries, in any order and more than once.
BuildGraphIDs == {GraphIDName[i] : i \in 1..MaxBuildTasks}

BuildGraphIDSeqs(n) ==
    {[i \in 1..n |-> GraphIDName[g[i]]] :
       g \in {f \in [1..n -> 1..MaxBuildTasks] :
                \A i \in 1..n : \A k \in 1..(f[i] - 1) :
                    \E j \in 1..(i - 1) : f[j] = k}}

BuildDepends == SeqsUpTo(BuildGraphIDs \cup {UnknownGraphID}, MaxBuildDepend)

\* What the store may answer to ComputeStatus (a lookup that is not made
\* answers nothing).
StoreAnswers ==
    {[getErr |-> TRUE, listErr |-> FALSE, endTask |-> <<>>],
     [getErr |-> FALSE, listErr |-> TRUE, endTask |-> <<>>]}
    \cup {[getErr |-> FALSE, listErr |-> FALSE, endTask |-> e] :
            e \in SeqsUpTo({TaskInstanceStatusSuccess, TaskInstanceStatusRunning},
                           MaxEndTasks)}

\* Dependency lists of a descriptor of an input that may be cyclic: at most
\* MaxDepend of the n descriptors, itself included.
CyclicDepends(n) ==
    {SortedSeq(S) : S \in {T \in SUBSET (1..n) : Cardinality(T) <= MaxDepend}}

\* Statuses of the task instances of the cyclic specification.
CyclicStatuses ==
    {TaskInstanceStatusInit, TaskInstanceStatusSuccess, TaskInstanceStatusFailed}

\* A task that names its one parent twice.
RepeatedDependShape == <<<<>>, <<1, 1>>>>

\* Inputs of the driver specification: those of the event specification and
\* the one with a repeated dependency identifier, every task in status Init.
DriverInputs ==
    EventInputs
    \cup {DagInput(Len(RepeatedDependShape), RepeatedDependShape,
                   [i \in 1..Len(RepeatedDependShape) |-> TaskInstanceStatusInit])}

\* what the store answers when the End task cannot be looked up
StoreUnavailable == [getErr |-> TRUE, listErr |-> FALSE, endTask |-> <<>>]

NodeRefs == DOMAIN heap \ {RootRef}

----------------------------------------------------------------------------
(* Actions *)

Init ==
    /\ tasks = <<>>
    /\ pc = "new"
    /\ root = NilRef
    /\ err = NoError
    /\ heap = NoHeap
    /\ out = [op |-> "none"]
    /\ waitQueue = <<>>
    /\ visited = {}
    /\ incomplete = <<>>
    /\ handed = <<>>
    /\ reported = <<>>

DoBuildRootNode(ts) ==
    LET r == BuildRootNodeResult(ts)
    IN /\ tasks' = ts
       /\ root' = r.root
       /\ err' = r.err
       /\ heap' = r.heap
       /\ pc' = IF r.err = NoError THEN "built" ELSE "error"
       /\ out' = [op |-> "BuildRootNode"]
       /\ UNCHANGED <<hasCycleVars, driverVars>>

\* BuildRootNode on a set of tasks that were never run
BuildDag ==
    /\ pc = "new"
    /\ \E ts \in EventInputs : DoBuildRootNode(ts)

\* BuildRootNode on the task instances of a dag instance that has run
BuildSnapshot ==
    /\ pc = "new"
    /\ \E n \in 1..MaxSnapshotTasks :
         \E e \in DagShapes(n), st \in [1..n -> SnapshotStatuses] :
            DoBuildRootNode(DagInput(n, e, st))

\* BuildRootNode on any input
BuildAny ==
    /\ pc = "new"
    /\ \E n \in 0..MaxBuildTasks :
         \E g \in BuildGraphIDSeqs(n), d \in [1..n -> BuildDepends] :
            DoBuildRootNode([i \in 1..n |->
                Descriptor(i, g[i], d[i], TaskInstanceStatusInit)])

DoGetExecutableTaskIds ==
    /\ pc = "built"
    /\ LET r == GetExecutableTaskIds(heap, root)
       IN /\ pc' = IF r.overflow THEN "overflow" ELSE pc
          /\ out' = IF r.overflow THEN [op |-> "overflow"]
                    ELSE [op |-> "GetExecutableTaskIds",
                          executables |-> r.executables]
          /\ heap' = r.heap
    /\ UNCHANGED <<tasks, root, err, hasCycleVars, driverVars>>

DoGetNextTaskIds(completedOrRetryTask) ==
    LET r == GetNextTaskIds(heap, root, completedOrRetryTask)
    IN /\ pc' = IF r.overflow THEN "overflow" ELSE pc
       /\ heap' = r.heap
       /\ out' = IF r.overflow THEN [op |-> "overflow"]
                 ELSE [op |-> "GetNextTaskIds",
                       arg |-> completedOrRetryTask,
                       executable |-> r.executable, find |-> r.find]
       /\ UNCHANGED <<tasks, root, err, hasCycleVars, driverVars>>

\* one event: a record with the identity of a node, of the root, or of no
\* node, in any of the event statuses
NextTaskIds ==
    /\ pc = "built"
    /\ \E id \in {heap[n].TaskInsID : n \in DOMAIN heap} \cup {UnknownInsID},
          s \in EventStatuses :
            DoGetNextTaskIds([ID |-> id, Status |-> s])

DoComputeStatus(store) ==
    LET r == ComputeStatus(heap, root, store)
    IN /\ pc' = IF r.overflow THEN "overflow" ELSE pc
       /\ out' = IF r.overflow THEN [op |-> "overflow"]
                 ELSE [op |-> "ComputeStatus", store |-> store,
                       status |-> r.status,
                       srcTaskInsId |-> r.srcTaskInsId,
                       walked |-> r.walked]
       /\ heap' = r.heap
       /\ UNCHANGED <<tasks, root, err, hasCycleVars, driverVars>>

Status ==
    /\ pc = "built"
    /\ \E store \in StoreAnswers : DoComputeStatus(store)

\* BuildRootNode on task instances whose dependencies may form cycles
BuildCyclic ==
    /\ pc = "new"
    /\ \E n \in 1..MaxCyclicTasks :
         \E e \in [1..n -> CyclicDepends(n)], st \in [1..n -> CyclicStatuses] :
            DoBuildRootNode(DagInput(n, e, st))

\* BuildRootNode on tasks that were never run and whose dependencies may
\* form cycles
BuildCyclicInit ==
    /\ pc = "new"
    /\ \E n \in 1..MaxCyclicTasks :
         \E e \in [1..n -> CyclicDepends(n)] :
            DoBuildRootNode(DagInput(n, e, [i \in 1..n |-> TaskInstanceStatusInit]))

\* an event for an identity that no node carries
LateEvent ==
    /\ pc = "built"
    /\ \E s \in EventStatuses :
         DoGetNextTaskIds([ID |-> UnknownInsID, Status |-> s])

\* HasCycle up to its call of bfsCheckCycle
DoHasCycle ==
    /\ pc = "built"
    /\ pc' = "bfsCheckCycle"
    /\ waitQueue' = <<root>>
    /\ visited' = {}
    /\ incomplete' = <<>>
    /\ out' = [op |-> "bfsCheckCycle"]
    /\ UNCHANGED <<tasks, root, err, heap, driverVars>>

\* one call of bfsCheckCycle on a queue that is not empty, up to its
\* recursive call
DoBfsCheckCycle ==
    /\ pc = "bfsCheckCycle"
    /\ Len(waitQueue) # 0
    /\ LET r == bfsCheckCycleLoop(heap, waitQueue, 1, Len(waitQueue),
                                  visited, incomplete)
       IN /\ waitQueue' = r.waitQueue
          /\ visited' = r.visited
          /\ incomplete' = r.incomplete
    /\ UNCHANGED <<tasks, pc, root, err, heap, out, driverVars>>

\* the call of bfsCheckCycle on the empty queue, the returns of the calls
\* before it, and the rest of HasCycle: any one of the parked nodes (the
\* iteration order of a map is not fixed), or nil
HasCycleReturn ==
    /\ pc = "bfsCheckCycle"
    /\ Len(waitQueue) = 0
    /\ \E cycleStart \in
            IF DOMAIN incomplete # {}
            THEN {incomplete[k] : k \in DOMAIN incomplete} ELSE {NilRef} :
         out' = [op |-> "HasCycle", cycleStart |-> cycleStart]
    /\ pc' = "built"
    /\ waitQueue' = <<>>
    /\ visited' = {}
    /\ incomplete' = <<>>
    /\ UNCHANGED <<tasks, root, err, heap, driverVars>>

HasCycle == DoHasCycle \/ DoBfsCheckCycle \/ HasCycleReturn

\* The driver of one run.  It builds the graph, takes the result of
\* GetExecutableTaskIds, and from then on sends one GetNextTaskIds call at a
\* time: the completion (Success) of a task it was handed.  handed collects
\* every identity the calls returned, reported the completions sent.
DriverBuild ==
    /\ pc = "new"
    /\ \E ts \in DriverInputs : DoBuildRootNode(ts)

DriverStarted == pc = "built" /\ out.op # "BuildRootNode"

DriverStart ==
    /\ pc = "built"
    /\ out.op = "BuildRootNode"
    /\ LET r == GetExecutableTaskIds(heap, root)
       IN /\ pc' = IF r.overflow THEN "overflow" ELSE pc
          /\ out' = IF r.overflow THEN [op |-> "overflow"]
                    ELSE [op |-> "GetExecutableTaskIds",
                          executables |-> r.executables]
          /\ heap' = r.heap
          /\ handed' = r.executables
    /\ UNCHANGED <<tasks, root, err, hasCycleVars, reported>>

DriverReport(id) ==
    LET completedOrRetryTask == [ID |-> id, Status |-> TaskInstanceStatusSuccess]
        r == GetNextTaskIds(heap, root, completedOrRetryTask)
    IN /\ pc' = IF r.overflow THEN "overflow" ELSE pc
       /\ heap' = r.heap
       /\ out' = IF r.overflow THEN [op |-> "overflow"]
                 ELSE [op |-> "GetNextTaskIds",
                       arg |-> completedOrRetryTask,
                       executable |-> r.executable, find |-> r.find]
       /\ handed' = handed \o r.executable
       /\ reported' = Append(reported, id)
       /\ UNCHANGED <<tasks, root, err, hasCycleVars>>

\* the completion of a task that was handed out and has not been reported
DriverReportNew ==
    /\ DriverStarted
    /\ \E id \in Range(handed) \ Range(reported) : DriverReport(id)

\* a completion event that arrives once more
DriverReportAgain ==
    /\ DriverStarted
    /\ Len(reported) - Cardinality(Range(reported)) < MaxDuplicates
    /\ \E id \in Range(handed) \cap Range(reported) : DriverReport(id)

\* the driver asks for the status of the run; the store is of no help
DriverStatus ==
    /\ DriverStarted
    /\ DoComputeStatus(StoreUnavailable)

\* The event specification: a graph of tasks in status Init, then any
\* sequence of GetNextTaskIds events and GetExecutableTaskIds calls.
Next == BuildDag \/ NextTaskIds \/ DoGetExecutableTaskIds

Spec == Init /\ [][Next]_vars

\* The snapshot specification: a graph of task instances in any statuses,
\* then ComputeStatus and GetExecutableTaskIds calls.
NextSnapshot == BuildSnapshot \/ Status \/ DoGetExecutableTaskIds

SpecSnapshot == Init /\ [][NextSnapshot]_vars

\* The construction specification: BuildRootNode on any input.
NextBuild == BuildAny

SpecBuild == Init /\ [][NextBuild]_vars

\* The cyclic specification: a graph of task instances in any statuses whose
\* dependencies may form cycles, then any sequence of walks that leave the
\* statuses as they are.
NextCyclic == BuildCyclic \/ Status \/ DoGetExecutableTaskIds \/ LateEvent

SpecCyclic == Init /\ [][NextCyclic]_vars

\* The cycle-check specification: a graph whose dependencies may form
\* cycles, then HasCycle calls on its root.  HasCycle runs to its end once
\* called: the fair specification says so.
NextHasCycle == BuildCyclicInit \/ DoHasCycle \/ DoBfsCheckCycle \/ HasCycleReturn

SpecHasCycle == Init /\ [][NextHasCycle]_vars

SpecHasCycleFair ==
    SpecHasCycle /\ WF_vars(DoBfsCheckCycle) /\ WF_vars(HasCycleReturn)

\* The driver specification.  The driver starts once the graph is built and
\* sends the completion of every task it was handed: the fair specification
\* says so.
NextDriver ==
    DriverBuild \/ DriverStart \/ DriverReportNew \/ DriverReportAgain
        \/ DriverStatus

SpecDriver == Init /\ [][NextDriver]_vars

\* DriverReportNew can be taken exactly when a task that was handed out is
\* still to be reported (a report always extends reported).
DriverReportNewEnabled ==
    DriverStarted /\ Range(handed) \ Range(reported) # {}

\* Weak fairness of DriverStart and of DriverReportNew, the latter written
\* out with its enabling condition.
SpecDriverFair ==
    /\ SpecDriver
    /\ WF_vars(DriverStart)
    /\ ([]<>(~DriverReportNewEnabled) \/ []<><<DriverReportNew>>_vars)

\* The operations specification: a graph of tasks in status Init, then any
\* sequence of calls of the four operations on the root.
NextOps ==
    BuildDag \/ NextTaskIds \/ DoGetExecutableTaskIds \/ Status \/ HasCycle

SpecOps == Init /\ [][NextOps]_vars

----------------------------------------------------------------------------
(* Construction: C7, C8, C9 *)

DistinctGraphIDs(ts) ==
    \A i, j \in DOMAIN ts : ts[i].GraphID = ts[j].GraphID => i = j

DependsResolve(ts) ==
    \A i \in DOMAIN ts : \A k \in DOMAIN ts[i].Depend :
        \E j \in DOMAIN ts : ts[j].GraphID = ts[i].Depend[k]

HasStartTask(ts) == \E i \in DOMAIN ts : Len(ts[i].Depend) = 0

AllDepend(ts) == \A i \in DOMAIN ts : Len(ts[i].Depend) > 0

Returned == out.op = "BuildRootNode"

\* C7: BuildRootNode returns a root and no error exactly when the graph
\* identities are pairwise distinct, every dependency identifier is the graph
\* identity of a descriptor and some descriptor has no dependency; otherwise
\* it returns an error and no root.
C7_BuildSucceedsIffValid ==
    Returned =>
        /\ (root # NilRef /\ err = NoError) <=>
              (DistinctGraphIDs(tasks) /\ DependsResolve(tasks) /\ HasStartTask(tasks))
        /\ (root = NilRef) <=> (err # NoError)
        /\ (root = NilRef) => heap = NoHeap

\* a valid input of three descriptors with dependencies has been built
C7_Witness ==
    /\ Returned /\ root # NilRef
    /\ Len(tasks) = 3
    /\ Len(tasks[2].Depend) > 0 /\ Len(tasks[3].Depend) > 0

\* C8 as stated: whenever every descriptor declares a dependency, the error
\* is the "no start nodes" error.
C8_AllDependGivesNoStart ==
    (Returned /\ AllDepend(tasks)) => err = ErrNoStart

\* C8 amended: whenever every descriptor declares a dependency, BuildRootNode
\* returns no root and the first of these errors that applies: the repeat
\* error if two descriptors share a graph identity, the missing-dependency
\* error if a dependency identifier is no descriptor's graph identity, the
\* "no start nodes" error.
C8_AllDependErrorOrder ==
    (Returned /\ AllDepend(tasks)) =>
        /\ root = NilRef
        /\ err = IF ~DistinctGraphIDs(tasks) THEN ErrRepeat
                 ELSE IF ~DependsResolve(tasks) THEN ErrMissing
                 ELSE ErrNoStart

\* two descriptors that depend on each other were rejected for want of a
\* start node
C8_Witness ==
    /\ Returned /\ AllDepend(tasks) /\ err = ErrNoStart
    /\ Len(tasks) = 2
    /\ tasks[1].Depend = <<tasks[2].GraphID>>
    /\ tasks[2].Depend = <<tasks[1].GraphID>>

\* number of occurrences of x in the sequence q
Count(q, x) == Cardinality({k \in DOMAIN q : q[k] = x})

\* the node of graph identity g, in an input with distinct graph identities
RefOf(ts, g) == CHOOSE i \in DOMAIN ts : ts[i].GraphID = g

\* C9: in a built graph a node is a child of the virtual root exactly when
\* its descriptor has no dependency, and then the root is its only parent; a
\* node with dependencies has as parents the nodes its dependency identifiers
\* name, in that order, and never the root; and c occurs in p's children as
\* often as p occurs in c's parents.
C9_GraphLinks ==
    (Returned /\ root # NilRef) =>
        /\ \A i \in DOMAIN tasks :
             /\ (Count(heap[RootRef].children, i) > 0) <=> (Len(tasks[i].Depend) = 0)
             /\ Len(tasks[i].Depend) = 0 => heap[i].parents = <<RootRef>>
             /\ Len(tasks[i].Depend) > 0 =>
                  heap[i].parents =
                     [k \in DOMAIN tasks[i].Depend |-> RefOf(tasks, tasks[i].Depend[k])]
        /\ heap[RootRef].parents = <<>>
        /\ \A p \in DOMAIN heap : \A c \in DOMAIN heap :
             Count(heap[p].children, c) = Count(heap[c].parents, p)

\* a graph was built from a start task and a task naming it twice
C9_Witness ==
    /\ Returned /\ root # NilRef
    /\ \E i \in DOMAIN tasks :
         /\ Len(tasks[i].Depend) = 2
         /\ tasks[i].Depend[1] = tasks[i].Depend[2]
         /\ Count(heap[RefOf(tasks, tasks[i].Depend[1])].children, i) = 2

----------------------------------------------------------------------------
(* The claims' vocabulary, stated on the heap without the model's walk *)

MayProceed(n) ==
    heap[n].Status \in {TaskInstanceStatusSuccess, TaskInstanceStatusSkipped}

ParentsOf(n) == {heap[n].parents[k] : k \in DOMAIN heap[n].parents}

ChildrenOf(n) == {heap[n].children[k] : k \in DOMAIN heap[n].children}

\* the executable predicate of the specification
ExecutablePredicate(n) ==
    /\ heap[n].Status \in {TaskInstanceStatusInit, TaskInstanceStatusRetrying,
                           TaskInstanceStatusContinue, TaskInstanceStatusEnding}
    /\ \A p \in ParentsOf(n) : MayProceed(p)

RECURSIVE AncestorClosure(_)
AncestorClosure(S) ==
    LET T == S \cup UNION {ParentsOf(c) : c \in S}
    IN IF T = S THEN S ELSE AncestorClosure(T)

\* the proper ancestors of n, the virtual root excluded
AncestorsOf(n) == AncestorClosure(ParentsOf(n)) \ {RootRef}

AncestorsProceed(n) == \A a \in AncestorsOf(n) : MayProceed(a)

\* the non-root nodes of identity id
NodesOfID(id) == {n \in NodeRefs : heap[n].TaskInsID = id}

IsDiamond ==
    /\ Len(tasks) = Len(DiamondShape)
    /\ \A i \in DOMAIN tasks : heap[i].parents =
          IF DiamondShape[i] = <<>> THEN <<RootRef>> ELSE DiamondShape[i]

ReturnedExecutables == out.op = "GetExecutableTaskIds"

ReturnedNext == out.op = "GetNextTaskIds"

----------------------------------------------------------------------------
(* GetExecutableTaskIds: C1, C2 *)

\* the part of C1 that is about every graph: every identity returned is that
\* of a node the executable predicate holds of
C1_ReturnedAreExecutable ==
    ReturnedExecutables =>
        \A k \in DOMAIN out.executables :
            \E n \in NodesOfID(out.executables[k]) : ExecutablePredicate(n)

\* C1 as stated: every identity GetExecutableTaskIds returns is that of a
\* node in status Init, Retrying, Continue or Ending whose parents are all
\* Success or Skipped; and in the diamond, D is not returned while only one
\* of B and C is Success (read: has finished, as Success or Skipped), and is
\* returned once both are Success and D is Init.
C1_Original ==
    /\ C1_ReturnedAreExecutable
    /\ (ReturnedExecutables /\ IsDiamond) =>
         /\ (MayProceed(2) # MayProceed(3))
              => heap[4].TaskInsID \notin Range(out.executables)
         /\ (/\ heap[2].Status = TaskInstanceStatusSuccess
             /\ heap[3].Status = TaskInstanceStatusSuccess
             /\ heap[4].Status = TaskInstanceStatusInit)
              => heap[4].TaskInsID \in Range(out.executables)

\* C1 amended: every identity GetExecutableTaskIds returns is that of a node
\* in status Init, Retrying, Continue or Ending whose parents are all Success
\* or Skipped; and in the diamond, D is not returned while B or C is neither
\* Success nor Skipped, and is returned whenever A, B and C are each Success
\* or Skipped and D is Init.
C1_ExecutableSafe ==
    /\ C1_ReturnedAreExecutable
    /\ (ReturnedExecutables /\ IsDiamond) =>
         /\ ~(MayProceed(2) /\ MayProceed(3))
              => heap[4].TaskInsID \notin Range(out.executables)
         /\ (/\ MayProceed(1) /\ MayProceed(2) /\ MayProceed(3)
             /\ heap[4].Status = TaskInstanceStatusInit)
              => heap[4].TaskInsID \in Range(out.executables)

\* in the diamond with A, B and C Success, GetExecutableTaskIds returned D
C1_Witness ==
    /\ ReturnedExecutables /\ IsDiamond
    /\ heap[1].Status = TaskInstanceStatusSuccess
    /\ heap[2].Status = TaskInstanceStatusSuccess
    /\ heap[3].Status = TaskInstanceStatusSuccess
    /\ heap[4].TaskInsID \in Range(out.executables)

\* C2 as stated: every non-root node the executable predicate holds of has
\* its identity in the list GetExecutableTaskIds returns.
C2_Original ==
    ReturnedExecutables =>
        \A n \in NodeRefs :
            ExecutablePredicate(n) => heap[n].TaskInsID \in Range(out.executables)

\* C2 amended: every non-root node the executable predicate holds of and
\* whose ancestors are all Success or Skipped has its identity in the list
\* GetExecutableTaskIds returns.
C2_ExecutableComplete ==
    ReturnedExecutables =>
        \A n \in NodeRefs :
            (ExecutablePredicate(n) /\ AncestorsProceed(n))
                => heap[n].TaskInsID \in Range(out.executables)

\* GetExecutableTaskIds returned two tasks at once, one of them below a
\* finished task
C2_Witness ==
    /\ ReturnedExecutables
    /\ \E n \in NodeRefs, m \in NodeRefs :
         /\ n # m
         /\ AncestorsOf(n) # {}
         /\ ExecutablePredicate(n) /\ ExecutablePredicate(m)
         /\ {heap[n].TaskInsID, heap[m].TaskInsID} \subseteq Range(out.executables)

----------------------------------------------------------------------------
(* GetNextTaskIds: C4, C5, C6 *)

\* C4 as stated: a found record in status Success or Skipped returns exactly
\* the children of the matched node whose other parents are all Success or
\* Skipped.
C4_Original ==
    (ReturnedNext /\ out.find /\ out.arg.Status \in
        {TaskInstanceStatusSuccess, TaskInstanceStatusSkipped}) =>
        \A n \in NodesOfID(out.arg.ID) :
            Range(out.executable) =
                {heap[c].TaskInsID :
                   c \in {d \in ChildrenOf(n) :
                            \A p \in ParentsOf(d) \ {n} : MayProceed(p)}}

\* C4 amended: a found record in status Success or Skipped returns exactly
\* the children of the matched node that are themselves in status Init,
\* Retrying, Continue or Ending and whose parents are all Success or Skipped.
C4_NextAreExecutableChildren ==
    (ReturnedNext /\ out.find /\ out.arg.Status \in
        {TaskInstanceStatusSuccess, TaskInstanceStatusSkipped}) =>
        \A n \in NodesOfID(out.arg.ID) :
            Range(out.executable) =
                {heap[c].TaskInsID :
                   c \in {d \in ChildrenOf(n) : ExecutablePredicate(d)}}

\* a Success record for a task with two children returned one of them and
\* not the other
C4_Witness ==
    /\ ReturnedNext /\ out.find
    /\ out.arg.Status = TaskInstanceStatusSuccess
    /\ \E n \in NodesOfID(out.arg.ID) :
         /\ Cardinality(ChildrenOf(n)) = 2
         /\ Len(out.executable) = 1

\* C5 as stated: a record with the identity of a non-root node overwrites
\* that node's status and returns find = true; find = false comes with an
\* empty result and only when no node has that identity.
C5_Original ==
    ReturnedNext =>
        /\ \A n \in NodesOfID(out.arg.ID) :
              out.find /\ heap[n].Status = out.arg.Status
        /\ ~out.find => (out.executable = <<>> /\ NodesOfID(out.arg.ID) = {})

\* C5 amended: a record with the identity of a non-root node whose ancestors
\* are all Success or Skipped overwrites that node's status and returns
\* find = true; find = true is returned only for the identity of a non-root
\* node; find = false comes with an empty result and only when no non-root
\* node has that identity or an ancestor of that node is neither Success nor
\* Skipped.
C5_FoundWhenReached ==
    ReturnedNext =>
        /\ \A n \in NodesOfID(out.arg.ID) :
              AncestorsProceed(n) => (out.find /\ heap[n].Status = out.arg.Status)
        /\ out.find => \E n \in NodesOfID(out.arg.ID) :
                          heap[n].Status = out.arg.Status
        /\ ~out.find =>
              /\ out.executable = <<>>
              /\ \A n \in NodesOfID(out.arg.ID) : ~AncestorsProceed(n)

\* a record for a task below a finished task was found and written
C5_Witness ==
    /\ ReturnedNext /\ out.find
    /\ \E n \in NodesOfID(out.arg.ID) :
         /\ AncestorsOf(n) # {}
         /\ heap[n].Status = out.arg.Status
         /\ out.arg.Status = TaskInstanceStatusFailed

\* a GetNextTaskIds call that found a record in status Init
InitRecordStep ==
    /\ pc = "built"
    /\ out'.op = "GetNextTaskIds"
    /\ out'.find
    /\ out'.arg.Status = TaskInstanceStatusInit

\* C6: a found record in status Init returns that node's identity and
\* nothing else, sets that node's status to Init and leaves the status and
\* the links of every other node as they were.
C6_InitRecord ==
    [][InitRecordStep =>
        /\ out'.executable = <<out'.arg.ID>>
        /\ DOMAIN heap' = DOMAIN heap
        /\ \A n \in DOMAIN heap :
             /\ heap'[n].TaskInsID = heap[n].TaskInsID
             /\ heap'[n].children = heap[n].children
             /\ heap'[n].parents = heap[n].parents
             /\ heap'[n].Status =
                  IF heap[n].TaskInsID = out'.arg.ID /\ n # RootRef
                  THEN TaskInstanceStatusInit
                  ELSE heap[n].Status]_vars

\* a finished task with a finished child was set back to Init, and the child
\* is still finished
C6_Witness ==
    /\ ReturnedNext /\ out.find
    /\ out.arg.Status = TaskInstanceStatusInit
    /\ out.executable = <<out.arg.ID>>
    /\ \E n \in NodesOfID(out.arg.ID) :
         /\ heap[n].Status = TaskInstanceStatusInit
         /\ \E c \in ChildrenOf(n) : heap[c].Status = TaskInstanceStatusSuccess

----------------------------------------------------------------------------
(* ComputeStatus: C3, C10 *)

\* The nodes in the order a gated depth-first, left-to-right walk from n
\* visits them: n itself (the virtual root excepted), then, if n is Success
\* or Skipped, the walks from its children in order, a child with several
\* parents only if all of them are Success or Skipped.
RECURSIVE GatedOrder(_)
RECURSIVE GatedOrderChildren(_, _)
GatedOrder(n) ==
    (IF n = RootRef THEN <<>> ELSE <<n>>)
        \o (IF MayProceed(n) THEN GatedOrderChildren(n, 1) ELSE <<>>)

GatedOrderChildren(n, i) ==
    IF i > Len(heap[n].children) THEN <<>>
    ELSE LET c == heap[n].children[i]
         IN (IF Len(heap[c].parents) > 1 /\ \E p \in ParentsOf(c) : ~MayProceed(p)
             THEN <<>> ELSE GatedOrder(c))
            \o GatedOrderChildren(n, i + 1)

Verdict(s) ==
    IF s \in {TaskInstanceStatusFailed, TaskInstanceStatusCanceled}
    THEN TreeStatusFailed
    ELSE IF s = TaskInstanceStatusBlocked THEN TreeStatusBlocked
    ELSE TreeStatusRunning

Least(S) == CHOOSE k \in S : \A j \in S : k <= j

Greatest(S) == CHOOSE k \in S : \A j \in S : j <= k

ReturnedStatus == out.op = "ComputeStatus"

\* C3: the full walk of ComputeStatus reports the verdict of the first node,
\* in gated walk order, that is neither Success nor Skipped, and that node's
\* identity.
C3_FirstUnfinishedWins ==
    (ReturnedStatus /\ out.walked) =>
        LET order == GatedOrder(RootRef)
            unfinished == {k \in DOMAIN order : ~MayProceed(order[k])}
        IN unfinished # {} =>
             /\ out.status = Verdict(heap[order[Least(unfinished)]].Status)
             /\ out.srcTaskInsId = heap[order[Least(unfinished)]].TaskInsID

\* What the full walk returns: Running and the first node in gated walk
\* order that is in flight (not Success, Skipped, Failed, Canceled or
\* Blocked) if there is one; otherwise the verdict and the identity of the
\* last Failed, Canceled or Blocked node in that order; otherwise Success.
FullWalkResult ==
    LET order == GatedOrder(RootRef)
        stopped == {k \in DOMAIN order :
                      heap[order[k]].Status \in
                         {TaskInstanceStatusFailed, TaskInstanceStatusCanceled,
                          TaskInstanceStatusBlocked}}
        inflight == {k \in DOMAIN order : ~MayProceed(order[k])} \ stopped
    IN IF inflight # {}
       THEN <<TreeStatusRunning, heap[order[Least(inflight)]].TaskInsID>>
       ELSE IF stopped # {}
       THEN <<Verdict(heap[order[Greatest(stopped)]].Status),
              heap[order[Greatest(stopped)]].TaskInsID>>
       ELSE <<TreeStatusSuccess, "">>

\* C10: ComputeStatus returns (Success, "") without walking when both
\* lookups succeed and find exactly one End record, in status Success; with
\* any other answer of the store it walks and returns what the full walk of
\* the graph returns.  It has no other outcome.
C10_FastPathOrWalk ==
    ReturnedStatus =>
        IF /\ ~out.store.getErr
           /\ ~out.store.listErr
           /\ Len(out.store.endTask) = 1
           /\ out.store.endTask[1] = TaskInstanceStatusSuccess
        THEN /\ ~out.walked
             /\ <<out.status, out.srcTaskInsId>> = <<TreeStatusSuccess, "">>
        ELSE /\ out.walked
             /\ <<out.status, out.srcTaskInsId>> = FullWalkResult

\* the store failed and ComputeStatus reported a failed task
C10_Witness ==
    /\ ReturnedStatus
    /\ out.store.getErr
    /\ out.status = TreeStatusFailed
    /\ \E n \in NodesOfID(out.srcTaskInsId) :
          heap[n].Status = TaskInstanceStatusFailed

----------------------------------------------------------------------------
(* Graphs with cycles: C11, C12, C13 *)

\* n lies on a directed cycle
OnCycle(n) == n \in AncestorClosure(ParentsOf(n))

\* the graph has a directed cycle among its non-root nodes
HasDirectedCycle == \E n \in NodeRefs : OnCycle(n)

\* C11: the full walk of ComputeStatus returns Success and no source
\* identity exactly when every non-root node of the graph is Success or
\* Skipped.
C11_SuccessIffAllFinished ==
    (ReturnedStatus /\ out.walked) =>
        ((out.status = TreeStatusSuccess /\ out.srcTaskInsId = "")
            <=> \A n \in NodeRefs : MayProceed(n))

ReturnedCycle == out.op = "HasCycle"

\* C12: HasCycle called on the root returns a node if the graph has a
\* directed cycle among its non-root nodes, and no node if it has none.
C12_HasCycleIffCyclic ==
    ReturnedCycle => ((out.cycleStart # NilRef) <=> HasDirectedCycle)

\* C13: on every graph BuildRootNode returns, whatever the statuses,
\* ComputeStatus, GetExecutableTaskIds and GetNextTaskIds return: no walk
\* recurses without end.
C13_WalksTerminate == pc # "overflow"

----------------------------------------------------------------------------
(* What the operations change: C14 *)

\* the nodes whose status a step changes
StatusChanged == {n \in DOMAIN heap : heap'[n].Status # heap[n].Status}

\* C14: a call on a built root changes no identity and no parent or child
\* link and leaves the virtual root in status Success; it changes the status
\* of at most one node, and only in a GetNextTaskIds call that returns
\* find = true, at the non-root node that carries the record's identity, to
\* the record's status.  So ComputeStatus, GetExecutableTaskIds, HasCycle and
\* a GetNextTaskIds call that returns find = false (such as one for the
\* reserved root identity) change no status.
C14_Frame ==
    [][(pc \in {"built", "bfsCheckCycle"}) =>
        /\ DOMAIN heap' = DOMAIN heap
        /\ \A n \in DOMAIN heap :
             /\ heap'[n].TaskInsID = heap[n].TaskInsID
             /\ heap'[n].children = heap[n].children
             /\ heap'[n].parents = heap[n].parents
        /\ heap'[RootRef].Status = TaskInstanceStatusSuccess
        /\ Cardinality(StatusChanged) <= 1
        /\ \A n \in StatusChanged :
             /\ out'.op = "GetNextTaskIds"
             /\ out'.find
             /\ n # RootRef
             /\ heap[n].TaskInsID = out'.arg.ID
             /\ heap'[n].Status = out'.arg.Status]_vars

\* a record in status Failed that carried the reserved root identity was not
\* found, while a task of the graph has been set to Failed
C14_Witness ==
    /\ ReturnedNext
    /\ out.arg = [ID |-> virtualTaskRootID, Status |-> TaskInstanceStatusFailed]
    /\ ~out.find
    /\ heap[RootRef].Status = TaskInstanceStatusSuccess
    /\ \E n \in NodeRefs : heap[n].Status = TaskInstanceStatusFailed

----------------------------------------------------------------------------
(* Dispatch: C15, C16, C17 *)

\* no value occurs twice in the sequence q
NoRepeat(q) == \A i, j \in DOMAIN q : q[i] = q[j] => i = j

\* C15: the list GetExecutableTaskIds returns holds each identity at most
\* once.
C15_ExecutablesUnique == ReturnedExecutables => NoRepeat(out.executables)

\* no dependency list names an identifier twice
NoRepeatedDepend == \A i \in DOMAIN tasks : NoRepeat(tasks[i].Depend)

\* every task that was handed out has all its parents in status Success
\* (statuses only ever become Success here, so this says the parents were
\* Success when the task was handed out)
HandedAfterParents ==
    \A k \in DOMAIN handed : \A n \in NodesOfID(handed[k]) :
        \A p \in ParentsOf(n) : heap[p].Status = TaskInstanceStatusSuccess

\* C16 as stated: when no dependency list repeats an identifier and the
\* driver reports Success only for identities it was handed, no identity is
\* handed out twice and none while a parent is not Success.
C16_Original ==
    (DriverStarted /\ NoRepeatedDepend) =>
        (NoRepeat(handed) /\ HandedAfterParents)

\* C16 amended: when no dependency list repeats an identifier and the driver
\* reports Success only for identities it was handed, and for each of them
\* once, no identity is handed out twice and none while a parent is not
\* Success.
C16_ExactlyOnce ==
    (DriverStarted /\ NoRepeatedDepend /\ NoRepeat(reported)) =>
        (NoRepeat(handed) /\ HandedAfterParents)

\* the four tasks of the diamond have been handed out, and reported once each
C16_Witness ==
    /\ DriverStarted /\ IsDiamond /\ NoRepeat(reported)
    /\ Len(handed) = 4 /\ Len(reported) = 4

\* every task has been handed out, every node is Success and the full walk
\* of ComputeStatus returns Success
RunComplete ==
    /\ pc = "built"
    /\ \A n \in NodeRefs :
         /\ heap[n].TaskInsID \in Range(handed)
         /\ heap[n].Status = TaskInstanceStatusSuccess
    /\ LET w == ComputeStatusWalk(heap, root)
       IN ~w.overflow /\ w.status = TreeStatusSuccess /\ w.srcTaskInsId = ""

\* C17: when the driver sends the completion of every task it is handed,
\* every GetNextTaskIds call returns find = true, and a built graph leads to
\* a state where every task has been handed out, every node is Success and
\* the full walk of ComputeStatus returns Success.
C17_Progress ==
    /\ [](ReturnedNext => out.find)
    /\ (pc = "built") ~> RunComplete

\* the run of the diamond is complete and ComputeStatus said so
C17_Witness ==
    /\ RunComplete /\ IsDiamond
    /\ ReturnedStatus /\ out.walked /\ out.status = TreeStatusSuccess

----------------------------------------------------------------------------
(* HasCycle: C18, C19 *)

\* C18: a node HasCycle returns lies on a directed cycle or has an ancestor
\* that does.
C18_ReturnedNodeBelowCycle ==
    (ReturnedCycle /\ out.cycleStart # NilRef) =>
        \/ OnCycle(out.cycleStart)
        \/ \E a \in AncestorsOf(out.cycleStart) : OnCycle(a)

\* HasCycle returned a node that is on no cycle itself, below a cycle
C18_Witness ==
    /\ ReturnedCycle /\ out.cycleStart # NilRef
    /\ ~OnCycle(out.cycleStart)
    /\ \E a \in AncestorsOf(out.cycleStart) : OnCycle(a)

====
